---- MODULE Spec2Model ----
(***************************************************************************)
(* A model of server/utils/text_utils.go of text-forge.                    *)
(*                                                                         *)
(* A Go string is a sequence of bytes (0..255).  Every place where the     *)
(* source looks at a string as code points (range, []rune, strings.Map,    *)
(* the unicode classes) goes through DecodeRuneInString / EncodeRune, so an *)
(* ill-formed byte becomes U+FFFD exactly where Go makes it one.           *)
(*                                                                         *)
(* Each exported function is called by one action.  A call reads the       *)
(* arguments in text/find/repl/flag/style and leaves its result in ret     *)
(* (a string), words (splitWords' tokens), stats (WordCount's map) or      *)
(* panicked.  Feed hands a string result back as the next call's text.     *)
(***************************************************************************)
EXTENDS Integers, Sequences, FiniteSets, TLC

VARIABLES
    pc,        \* "call": arguments ready, "done": the call has returned
    fn,        \* the function the caller invokes
    text,      \* argument text / s
    find,      \* FindReplace's find
    repl,      \* FindReplace's replace
    flag,      \* caseSensitive (FindReplace) or ascending (SortLines)
    style,     \* ConvertCase's caseType of the last call
    ret,       \* the returned string
    words,     \* splitWords' returned []string
    stats,     \* WordCount's returned map
    panicked,  \* the call ended in a panic instead of returning
    first,     \* the text of the first call of the run
    calls      \* the caseType (or function name) of each call made so far

vars == <<pc, fn, text, find, repl, flag, style, ret, words, stats, panicked, first, calls>>

----------------------------------------------------------------------------
(* Bounds of the checked input spaces.                                     *)

MaxSplitLen == 4
MaxCaseLen == 4
MaxReverseLen == 5
MaxDedupLen == 5
MaxFindTextLen == 3
MaxFindLen == 2
MaxReplLen == 2
MaxSortLen == 4
MaxCountLen == 4

(* Bytes of the input alphabets, written as in the Go source.              *)
SplitBytes == {97, 65, 49, 45, 195, 169, 137}   \* a A 1 - 0xC3 0xA9 0x89 (C3 A9 = e-acute, C3 89 = E-acute)
CaseBytes == {97, 65, 95, 199, 134}             \* a A _ 0xC7 0x86 (C7 86 = U+01C6, the dz digraph)
ReverseBytes == {97, 98, 195, 169}              \* a b 0xC3 0xA9
DedupBytes == {97, 65, 32, 10}                  \* a A space \n
FindTextBytes == {97, 65, 40}                   \* a A (
FindBytes == {97, 40, 255}                      \* a ( 0xFF
ReplBytes == {36, 48, 120}                      \* $ 0 x
SortBytes == {97, 65, 98, 10}                   \* a A b \n
CountBytes == {97, 32, 10, 195, 169}            \* a space \n 0xC3 0xA9

Str(alphabet, n) == UNION {[1..k -> alphabet] : k \in 0..n}

NoStats == [words |-> 0, characters |-> 0, charactersNoSpaces |-> 0, lines |-> 0, paragraphs |-> 0]

----------------------------------------------------------------------------
(* unicode/utf8                                                            *)

RuneError == 65533
RuneSelf == 128

(* utf8.DecodeRuneInString(s[i-1:]) for the 1-based position i of s: the   *)
(* code point and its width; an ill-formed or truncated sequence is        *)
(* (RuneError, 1).                                                         *)
DecodeRuneInString(s, i) ==
    LET b0 == s[i]
        cont(k) == i + k <= Len(s) /\ s[i + k] >= 128 /\ s[i + k] <= 191
        low(k) == s[i + k] - 128
    IN  IF b0 < RuneSelf THEN [r |-> b0, w |-> 1]
        ELSE IF b0 >= 194 /\ b0 <= 223 /\ cont(1)
        THEN [r |-> (b0 - 192) * 64 + low(1), w |-> 2]
        ELSE IF b0 >= 224 /\ b0 <= 239 /\ cont(1) /\ cont(2)
                /\ (b0 = 224 => s[i + 1] >= 160) /\ (b0 = 237 => s[i + 1] <= 159)
        THEN [r |-> (b0 - 224) * 4096 + low(1) * 64 + low(2), w |-> 3]
        ELSE IF b0 >= 240 /\ b0 <= 244 /\ cont(1) /\ cont(2) /\ cont(3)
                /\ (b0 = 240 => s[i + 1] >= 144) /\ (b0 = 244 => s[i + 1] <= 143)
        THEN [r |-> (b0 - 240) * 262144 + low(1) * 4096 + low(2) * 64 + low(3), w |-> 4]
        ELSE [r |-> RuneError, w |-> 1]

(* utf8.AppendRune / strings.Builder.WriteRune: the bytes of code point r; *)
(* a surrogate or out-of-range value is written as U+FFFD.                 *)
EncodeRune(r) ==
    IF r < RuneSelf THEN <<r>>
    ELSE IF r < 2048 THEN <<192 + (r \div 64), 128 + (r % 64)>>
    ELSE IF r > 1114111 \/ (r >= 55296 /\ r <= 57343) THEN <<239, 191, 189>>
    ELSE IF r < 65536 THEN <<224 + (r \div 4096), 128 + ((r \div 64) % 64), 128 + (r % 64)>>
    ELSE <<240 + (r \div 262144), 128 + ((r \div 4096) % 64), 128 + ((r \div 64) % 64), 128 + (r % 64)>>

(* []rune(s): the code points a range over s yields.                       *)
RECURSIVE RunesFrom(_, _)
RunesFrom(s, i) ==
    IF i > Len(s) THEN <<>>
    ELSE LET d == DecodeRuneInString(s, i) IN <<d.r>> \o RunesFrom(s, i + d.w)

Runes(s) == RunesFrom(s, 1)

(* string(runes)                                                           *)
RECURSIVE StringOf(_)
StringOf(runes) ==
    IF runes = <<>> THEN <<>> ELSE EncodeRune(Head(runes)) \o StringOf(Tail(runes))

(* utf8.ValidString                                                        *)
RECURSIVE ValidFrom(_, _)
ValidFrom(s, i) ==
    IF i > Len(s) THEN TRUE
    ELSE LET d == DecodeRuneInString(s, i)
         IN  ~(d.r = RuneError /\ d.w = 1) /\ ValidFrom(s, i + d.w)

ValidString(s) == ValidFrom(s, 1)

----------------------------------------------------------------------------
(* unicode: the classes and simple case mappings of Go's tables, for the   *)
(* code points the checked alphabets can produce: U+0000..U+00FF, the      *)
(* images of Latin-1 letters that leave Latin-1 (U+0178, U+039C, U+03BC),  *)
(* the digraph U+01C4..U+01C6 and U+FFFD.                                  *)

Modelled(r) == r <= 255 \/ r \in {376, 452, 453, 454, 924, 956, RuneError}

IsUpper(r) ==
    \/ r >= 65 /\ r <= 90
    \/ r >= 192 /\ r <= 222 /\ r # 215
    \/ r \in {376, 452, 924}

IsLower(r) ==
    \/ r >= 97 /\ r <= 122
    \/ r = 181
    \/ r >= 223 /\ r <= 255 /\ r # 247
    \/ r \in {454, 956}

IsLetter(r) == IsUpper(r) \/ IsLower(r) \/ r \in {170, 186, 453}

IsDigit(r) == r >= 48 /\ r <= 57

IsNumber(r) == IsDigit(r) \/ r \in {178, 179, 185, 188, 189, 190}

IsSpace(r) == r \in {9, 10, 11, 12, 13, 32, 133, 160}

ToLower(r) ==
    IF r >= 65 /\ r <= 90 THEN r + 32
    ELSE IF r >= 192 /\ r <= 222 /\ r # 215 THEN r + 32
    ELSE IF r = 376 THEN 255
    ELSE IF r = 924 THEN 956
    ELSE IF r \in {452, 453} THEN 454
    ELSE r

ToUpper(r) ==
    IF r >= 97 /\ r <= 122 THEN r - 32
    ELSE IF r >= 224 /\ r <= 254 /\ r # 247 THEN r - 32
    ELSE IF r = 255 THEN 376
    ELSE IF r \in {181, 956} THEN 924
    ELSE IF r \in {453, 454} THEN 452
    ELSE r

ToTitle(r) ==
    IF r \in {452, 453, 454} THEN 453 ELSE ToUpper(r)

----------------------------------------------------------------------------
(* strings                                                                 *)

(* strings.Map(mapping, s) for a mapping that never drops a rune: every    *)
(* decoded rune is mapped and written back, an ill-formed byte as U+FFFD.  *)
RECURSIVE MapLower(_, _)
MapLower(s, i) ==
    IF i > Len(s) THEN <<>>
    ELSE LET d == DecodeRuneInString(s, i)
         IN  EncodeRune(ToLower(d.r)) \o MapLower(s, i + d.w)

RECURSIVE MapUpper(_, _)
MapUpper(s, i) ==
    IF i > Len(s) THEN <<>>
    ELSE LET d == DecodeRuneInString(s, i)
         IN  EncodeRune(ToUpper(d.r)) \o MapUpper(s, i + d.w)

StringsToLower(s) == MapLower(s, 1)

StringsToUpper(s) == MapUpper(s, 1)

(* strings.isSeparator                                                     *)
isSeparator(r) ==
    IF r <= 127
    THEN ~(IsDigit(r) \/ (r >= 97 /\ r <= 122) \/ (r >= 65 /\ r <= 90) \/ r = 95)
    ELSE IF IsLetter(r) \/ IsDigit(r) THEN FALSE
    ELSE IsSpace(r)

(* strings.Title: the rune after a separator (or at the start) is mapped   *)
(* to title case, every other rune is kept.                                *)
RECURSIVE MapTitle(_, _, _)
MapTitle(s, i, prev) ==
    IF i > Len(s) THEN <<>>
    ELSE LET d == DecodeRuneInString(s, i)
             out == IF isSeparator(prev) THEN ToTitle(d.r) ELSE d.r
         IN  EncodeRune(out) \o MapTitle(s, i + d.w, d.r)

StringsTitle(s) == MapTitle(s, 1, 32)

(* strings.Join                                                            *)
RECURSIVE StringsJoin(_, _)
StringsJoin(elems, sep) ==
    IF elems = <<>> THEN <<>>
    ELSE IF Len(elems) = 1 THEN elems[1]
    ELSE elems[1] \o sep \o StringsJoin(Tail(elems), sep)

----------------------------------------------------------------------------
(* splitWords (text_utils.go:179-206)                                      *)

(* The flush at a separator, at a hump and at the end of input: the        *)
(* accumulator becomes a token when it is not empty.                       *)
FlushAlways(wordList, currentWord) == Append(wordList, currentWord)

Flush(wordList, currentWord) ==
    IF Len(currentWord) > 0 THEN Append(wordList, currentWord) ELSE wordList

(* The camelCase test of line 186: r is upper case and the BYTE before r,  *)
(* read as a code point of its own, is lower case.                         *)
Hump(s, i, r) == i > 1 /\ IsUpper(r) /\ IsLower(s[i - 1])

RECURSIVE splitWordsLoop(_, _, _, _)
splitWordsLoop(s, i, wordList, currentWord) ==
    IF i > Len(s) THEN Flush(wordList, currentWord)
    ELSE LET d == DecodeRuneInString(s, i)
             r == d.r
         IN  IF IsLetter(r) \/ IsNumber(r)
             THEN IF Hump(s, i, r)
                  THEN splitWordsLoop(s, i + d.w, Flush(wordList, currentWord), EncodeRune(r))
                  ELSE splitWordsLoop(s, i + d.w, wordList, currentWord \o EncodeRune(r))
             ELSE splitWordsLoop(s, i + d.w, Flush(wordList, currentWord), <<>>)

splitWords(s) == splitWordsLoop(s, 1, <<>>, <<>>)

----------------------------------------------------------------------------
(* Calls                                                                   *)

InitCommon ==
    /\ pc = "call"
    /\ find = <<>>
    /\ repl = <<>>
    /\ flag = FALSE
    /\ style = ""
    /\ ret = <<>>
    /\ words = <<>>
    /\ stats = NoStats
    /\ panicked = FALSE
    /\ first = text
    /\ calls = <<>>

(* The caller passes a returned string on as the text of its next call; a  *)
(* run makes two calls.                                                    *)
Feed ==
    /\ pc = "done"
    /\ ~panicked
    /\ Len(calls) < 2
    /\ pc' = "call"
    /\ text' = ret
    /\ UNCHANGED <<fn, find, repl, flag, style, ret, words, stats, panicked, first, calls>>

CallSplitWords ==
    /\ pc = "call"
    /\ fn = "splitWords"
    /\ words' = splitWords(text)
    /\ pc' = "done"
    /\ calls' = Append(calls, fn)
    /\ UNCHANGED <<fn, text, find, repl, flag, style, ret, stats, panicked, first>>

InitSplit ==
    /\ fn = "splitWords"
    /\ text \in Str(SplitBytes, MaxSplitLen)
    /\ InitCommon

SpecSplit == InitSplit /\ [][CallSplitWords]_vars

----------------------------------------------------------------------------
(* ConvertCase and its five renderings (text_utils.go:116-177)             *)

(* The loop "for i, word := range words { words[i] = f(word) }".           *)
LowerEach(list) == [k \in 1..Len(list) |-> StringsToLower(list[k])]

UpperEach(list) == [k \in 1..Len(list) |-> StringsToUpper(list[k])]

(* The loop "for _, word := range ... { result += strings.Title(           *)
(* strings.ToLower(word)) }" started from result.                          *)
RECURSIVE AppendTitled(_, _)
AppendTitled(result, list) ==
    IF list = <<>> THEN result
    ELSE AppendTitled(result \o StringsTitle(StringsToLower(Head(list))), Tail(list))

toCamelCaseTitleFirst(s) == AppendTitled(<<>>, splitWords(s))

toCamelCase(s) ==
    LET list == splitWords(s)
    IN  IF Len(list) = 0 THEN <<>>
        ELSE AppendTitled(StringsToLower(list[1]), Tail(list))

toPascalCase(s) == AppendTitled(<<>>, splitWords(s))

toSnakeCaseNoSeparator(s) == StringsJoin(LowerEach(splitWords(s)), <<>>)

toSnakeCase(s) == StringsJoin(LowerEach(splitWords(s)), <<95>>)

toKebabCase(s) == StringsJoin(LowerEach(splitWords(s)), <<45>>)

toConstantCase(s) == StringsJoin(UpperEach(splitWords(s)), <<95>>)

ConvertCase(s, caseType) ==
    CASE caseType = "camelCase" -> toCamelCase(s)
      [] caseType = "PascalCase" -> toPascalCase(s)
      [] caseType = "snake_case" -> toSnakeCase(s)
      [] caseType = "kebab-case" -> toKebabCase(s)
      [] caseType = "CONSTANT_CASE" -> toConstantCase(s)
      [] OTHER -> s

CaseStyles == {"camelCase", "PascalCase", "snake_case", "kebab-case", "CONSTANT_CASE"}

CallConvertCase ==
    /\ pc = "call"
    /\ fn = "ConvertCase"
    /\ \E caseType \in CaseStyles \cup {"unknown-style"} :
          /\ ret' = ConvertCase(text, caseType)
          /\ style' = caseType
          /\ calls' = Append(calls, caseType)
    /\ pc' = "done"
    /\ UNCHANGED <<fn, text, find, repl, flag, words, stats, panicked, first>>

(* The texts of the scenarios: "!!!   ---",                                *)
NoWordCharsText == <<33, 33, 33, 32, 32, 32, 45, 45, 45>>

(* "myVarName123", its tokens "my" "Var" "Name123", and "my_var_name123"   *)
MyVarName123 == <<109, 121, 86, 97, 114, 78, 97, 109, 101, 49, 50, 51>>
MyVarName123Tokens == <<<<109, 121>>, <<86, 97, 114>>, <<78, 97, 109, 101, 49, 50, 51>>>>
MyVarName123Snake == <<109, 121, 95, 118, 97, 114, 95, 110, 97, 109, 101, 49, 50, 51>>

InitCase ==
    /\ fn = "ConvertCase"
    /\ text \in Str(CaseBytes, MaxCaseLen) \cup {NoWordCharsText, MyVarName123}
    /\ InitCommon

NextCase == CallConvertCase \/ Feed

SpecCase == InitCase /\ [][NextCase]_vars

----------------------------------------------------------------------------
(* strings.Split, strings.Index                                            *)

(* s[i-1:] starts with sub (i is 1-based).                                 *)
HasPrefixAt(s, i, sub) ==
    i + Len(sub) - 1 <= Len(s) /\ SubSeq(s, i, i + Len(sub) - 1) = sub

(* The 1-based position of the first occurrence of sub in s at or after i, *)
(* 0 when there is none.                                                   *)
RECURSIVE IndexFrom(_, _, _)
IndexFrom(s, i, sub) ==
    IF i + Len(sub) - 1 > Len(s) THEN 0
    ELSE IF HasPrefixAt(s, i, sub) THEN i
    ELSE IndexFrom(s, i + 1, sub)

(* strings.Split(s, sep) for a non-empty sep.                              *)
RECURSIVE SplitFrom(_, _, _)
SplitFrom(s, i, sep) ==
    LET m == IndexFrom(s, i, sep)
    IN  IF m = 0 THEN <<SubSeq(s, i, Len(s))>>
        ELSE <<SubSeq(s, i, m - 1)>> \o SplitFrom(s, m + Len(sep), sep)

StringsSplit(s, sep) == SplitFrom(s, 1, sep)

Newline == <<10>>

----------------------------------------------------------------------------
(* ReverseText (text_utils.go:29-36)                                       *)

(* The swap loop over i, j of lines 32-34.                                 *)
RECURSIVE ReverseLoop(_, _, _)
ReverseLoop(runes, i, j) ==
    IF i < j
    THEN ReverseLoop([runes EXCEPT ![i] = runes[j], ![j] = runes[i]], i + 1, j - 1)
    ELSE runes

ReverseBytewise(s) == ReverseLoop(s, 1, Len(s))

ReverseText(s) == StringOf(ReverseLoop(Runes(s), 1, Len(Runes(s))))

CallReverseText ==
    /\ pc = "call"
    /\ fn = "ReverseText"
    /\ ret' = ReverseText(text)
    /\ pc' = "done"
    /\ calls' = Append(calls, fn)
    /\ UNCHANGED <<fn, text, find, repl, flag, style, words, stats, panicked, first>>

InitReverse ==
    /\ fn = "ReverseText"
    /\ text \in Str(ReverseBytes, MaxReverseLen)
    /\ InitCommon

NextReverse == CallReverseText \/ Feed

SpecReverse == InitReverse /\ [][NextReverse]_vars

----------------------------------------------------------------------------
(* RemoveDuplicateLines (text_utils.go:86-100)                             *)

(* The loop of lines 92-97 over lines[k..], with the seen map as a set.    *)
RECURSIVE DedupLoop(_, _, _, _)
DedupLoop(lineList, k, seen, result) ==
    IF k > Len(lineList) THEN result
    ELSE IF lineList[k] \notin seen
    THEN DedupLoop(lineList, k + 1, seen \cup {lineList[k]}, Append(result, lineList[k]))
    ELSE DedupLoop(lineList, k + 1, seen, result)

(* The loop without "seen[line] = true".                                   *)
RECURSIVE DedupLoopNeverSeen(_, _, _, _)
DedupLoopNeverSeen(lineList, k, seen, result) ==
    IF k > Len(lineList) THEN result
    ELSE DedupLoopNeverSeen(lineList, k + 1, seen, Append(result, lineList[k]))

RemoveDuplicateLinesNeverSeen(s) ==
    StringsJoin(DedupLoopNeverSeen(StringsSplit(s, Newline), 1, {}, <<>>), Newline)

RemoveDuplicateLines(s) ==
    StringsJoin(DedupLoop(StringsSplit(s, Newline), 1, {}, <<>>), Newline)

CallRemoveDuplicateLines ==
    /\ pc = "call"
    /\ fn = "RemoveDuplicateLines"
    /\ ret' = RemoveDuplicateLines(text)
    /\ pc' = "done"
    /\ calls' = Append(calls, fn)
    /\ UNCHANGED <<fn, text, find, repl, flag, style, words, stats, panicked, first>>

(* "a\nb\na\nc\nb" and "a\nb\nc"                                           *)
DedupScenario == <<97, 10, 98, 10, 97, 10, 99, 10, 98>>
DedupScenarioResult == <<97, 10, 98, 10, 99>>

InitDedup ==
    /\ fn = "RemoveDuplicateLines"
    /\ text \in Str(DedupBytes, MaxDedupLen) \cup {DedupScenario}
    /\ InitCommon

NextDedup == CallRemoveDuplicateLines \/ Feed

SpecDedup == InitDedup /\ [][NextDedup]_vars

----------------------------------------------------------------------------
(* FindReplace (text_utils.go:77-84) with regexp.QuoteMeta,                *)
(* regexp.MustCompile, Regexp.ReplaceAllString and strings.ReplaceAll.     *)

(* regexp.QuoteMeta: a backslash before each byte of \.+*?()|[]{}^$        *)
RECURSIVE QuoteMeta(_)
QuoteMeta(s) ==
    IF s = <<>> THEN <<>>
    ELSE (IF Head(s) \in {92, 46, 43, 42, 63, 40, 41, 124, 91, 93, 123, 125, 94, 36}
          THEN <<92, Head(s)>> ELSE <<Head(s)>>) \o QuoteMeta(Tail(s))

(* "(?i)"                                                                  *)
FoldFlagGroup == <<40, 63, 105, 41>>

(* regexp/syntax.Parse of the expression after the flag group "(?i)", for  *)
(* the expressions FindReplace builds over the find alphabet: an escaped   *)
(* punctuation byte and any other code point are literals; an ill-formed   *)
(* byte (ErrInvalidUTF8), an unescaped "(" (ErrMissingParen: the alphabet  *)
(* has no ")") and a trailing backslash (ErrTrailingBackslash) are errors. *)
RECURSIVE ParseLiterals(_, _, _)
ParseLiterals(expr, i, lits) ==
    IF i > Len(expr) THEN [ok |-> TRUE, lits |-> lits]
    ELSE LET d == DecodeRuneInString(expr, i)
         IN  IF d.r = RuneError /\ d.w = 1 THEN [ok |-> FALSE, lits |-> <<>>]
             ELSE IF expr[i] = 92
             THEN IF i + 1 <= Len(expr) /\ expr[i + 1] < RuneSelf
                     /\ ~IsLetter(expr[i + 1]) /\ ~IsDigit(expr[i + 1])
                  THEN ParseLiterals(expr, i + 2, Append(lits, expr[i + 1]))
                  ELSE [ok |-> FALSE, lits |-> <<>>]
             ELSE IF expr[i] = 40 THEN [ok |-> FALSE, lits |-> <<>>]
             ELSE ParseLiterals(expr, i + d.w, Append(lits, d.r))

(* regexp.Compile: the literal code points to match under case folding.    *)
Compile(expr) ==
    IF HasPrefixAt(expr, 1, FoldFlagGroup)
    THEN ParseLiterals(expr, Len(FoldFlagGroup) + 1, <<>>)
    ELSE [ok |-> FALSE, lits |-> <<>>]

(* Two code points of one unicode.SimpleFold orbit, as (?i) compares them. *)
SimpleFoldEq(a, b) == ToLower(ToUpper(a)) = ToLower(ToUpper(b))

(* The position after a match of lits[k..] starting at position p of src,  *)
(* 0 when there is none.                                                   *)
RECURSIVE MatchEnd(_, _, _, _)
MatchEnd(src, p, lits, k) ==
    IF k > Len(lits) THEN p
    ELSE IF p > Len(src) THEN 0
    ELSE LET d == DecodeRuneInString(src, p)
         IN  IF SimpleFoldEq(lits[k], d.r) THEN MatchEnd(src, p + d.w, lits, k + 1) ELSE 0

(* Regexp.doExecute from searchPos: the leftmost match <<start, end>>, or  *)
(* <<>>; the machine tries the start of each code point in turn.           *)
RECURSIVE doExecute(_, _, _)
doExecute(src, lits, searchPos) ==
    IF searchPos > Len(src) + 1 THEN <<>>
    ELSE LET e == MatchEnd(src, searchPos, lits, 1)
         IN  IF e # 0 THEN <<searchPos, e>>
             ELSE IF searchPos > Len(src) THEN <<>>
             ELSE doExecute(src, lits, searchPos + DecodeRuneInString(src, searchPos).w)

(* regexp.extract: the name after a "$" of the template at position t:     *)
(* ok, the group number (-1 for a name) and the position after the name.   *)
RECURSIVE NameEnd(_, _)
NameEnd(tpl, e) ==
    IF e > Len(tpl) THEN e
    ELSE LET d == DecodeRuneInString(tpl, e)
         IN  IF IsLetter(d.r) \/ IsDigit(d.r) \/ d.r = 95 THEN NameEnd(tpl, e + d.w) ELSE e

(* The number a group name denotes in regexp.extract: -1 for a name with a *)
(* non-digit, and -1 once the number read so far has reached 1e8.          *)
RECURSIVE NameNum(_, _, _)
NameNum(name, k, num) ==
    IF k > Len(name) THEN num
    ELSE IF name[k] < 48 \/ name[k] > 57 \/ num >= 100000000 THEN -1
    ELSE NameNum(name, k + 1, num * 10 + name[k] - 48)

extract(tpl, t) ==
    IF t > Len(tpl) THEN [ok |-> FALSE, num |-> 0, rest |-> t]
    ELSE LET brace == tpl[t] = 123
             start == IF brace THEN t + 1 ELSE t
             e == NameEnd(tpl, start)
             name == SubSeq(tpl, start, e - 1)
         IN  IF e = start THEN [ok |-> FALSE, num |-> 0, rest |-> t]
             ELSE IF brace /\ (e > Len(tpl) \/ tpl[e] # 125) THEN [ok |-> FALSE, num |-> 0, rest |-> t]
             ELSE [ok |-> TRUE,
                   num |-> IF name[1] = 48 /\ Len(name) > 1 THEN -1 ELSE NameNum(name, 1, 0),
                   rest |-> IF brace THEN e + 1 ELSE e]

(* Regexp.expand of the template from position t for a match of a pattern  *)
(* without groups: $0 and ${0} are the matched text, every other $name is  *)
(* empty, $$ is a "$", and a "$" that starts no name stays.                *)
RECURSIVE expand(_, _, _)
expand(tpl, t, matched) ==
    LET j == IndexFrom(tpl, t, <<36>>)
    IN  IF j = 0 THEN SubSeq(tpl, t, Len(tpl))
        ELSE LET before == SubSeq(tpl, t, j - 1)
                 ex == extract(tpl, j + 1)
             IN  IF j + 1 <= Len(tpl) /\ tpl[j + 1] = 36
                 THEN before \o <<36>> \o expand(tpl, j + 2, matched)
                 ELSE IF ~ex.ok THEN before \o <<36>> \o expand(tpl, j + 1, matched)
                 ELSE before \o (IF ex.num = 0 THEN matched ELSE <<>>) \o expand(tpl, ex.rest, matched)

(* Regexp.replaceAll: the loop over the matches from searchPos, with the   *)
(* end of the last match and the buffer built so far.                      *)
RECURSIVE replaceAll(_, _, _, _, _, _)
replaceAll(src, lits, tpl, searchPos, lastMatchEnd, buf) ==
    LET a == IF searchPos <= Len(src) + 1 THEN doExecute(src, lits, searchPos) ELSE <<>>
    IN  IF a = <<>> THEN buf \o SubSeq(src, lastMatchEnd, Len(src))
        ELSE LET copied == buf \o SubSeq(src, lastMatchEnd, a[1] - 1)
                 replaced == IF a[2] > lastMatchEnd \/ a[1] = 1
                             THEN copied \o expand(tpl, 1, SubSeq(src, a[1], a[2] - 1))
                             ELSE copied
                 width == IF searchPos <= Len(src) THEN DecodeRuneInString(src, searchPos).w ELSE 0
                 next == IF searchPos + width > a[2] THEN searchPos + width
                         ELSE IF searchPos + 1 > a[2] THEN searchPos + 1
                         ELSE a[2]
             IN  replaceAll(src, lits, tpl, next, a[2], replaced)

ReplaceAllString(lits, src, tpl) == replaceAll(src, lits, tpl, 1, 1, <<>>)

(* strings.ReplaceAll(s, old, new)                                         *)
RECURSIVE ReplaceEmptyFrom(_, _, _)
ReplaceEmptyFrom(s, i, new) ==
    IF i > Len(s) THEN <<>>
    ELSE LET w == DecodeRuneInString(s, i).w
         IN  SubSeq(s, i, i + w - 1) \o new \o ReplaceEmptyFrom(s, i + w, new)

RECURSIVE ReplaceFrom(_, _, _, _)
ReplaceFrom(s, i, old, new) ==
    LET j == IndexFrom(s, i, old)
    IN  IF j = 0 THEN SubSeq(s, i, Len(s))
        ELSE SubSeq(s, i, j - 1) \o new \o ReplaceFrom(s, j + Len(old), old, new)

StringsReplaceAll(s, old, new) ==
    IF old = new THEN s
    ELSE IF old = <<>> THEN new \o ReplaceEmptyFrom(s, 1, new)
    ELSE ReplaceFrom(s, 1, old, new)

(* FindReplace: the returned string, or the panic of regexp.MustCompile.   *)
FindReplace(s, old, new, caseSensitive) ==
    IF ~caseSensitive
    THEN LET re == Compile(FoldFlagGroup \o QuoteMeta(old))
         IN  IF re.ok THEN [panic |-> FALSE, out |-> ReplaceAllString(re.lits, s, new)]
             ELSE [panic |-> TRUE, out |-> <<>>]
    ELSE [panic |-> FALSE, out |-> StringsReplaceAll(s, old, new)]

CallFindReplace ==
    /\ pc = "call"
    /\ fn = "FindReplace"
    /\ LET res == FindReplace(text, find, repl, flag)
       IN  ret' = res.out /\ panicked' = res.panic
    /\ pc' = "done"
    /\ calls' = Append(calls, fn)
    /\ UNCHANGED <<fn, text, find, repl, flag, style, words, stats, first>>

(* "Hello HELLO hello", "hello", "hi" and "hi hi hi"                       *)
FindScenarioText == <<72, 101, 108, 108, 111, 32, 72, 69, 76, 76, 79, 32, 104, 101, 108, 108, 111>>
FindScenarioFind == <<104, 101, 108, 108, 111>>
FindScenarioReplace == <<104, 105>>
FindScenarioResult == <<104, 105, 32, 104, 105, 32, 104, 105>>

InitFind ==
    /\ fn = "FindReplace"
    /\ \/ /\ text \in Str(FindTextBytes, MaxFindTextLen)
          /\ find \in Str(FindBytes, MaxFindLen)
          /\ repl \in Str(ReplBytes, MaxReplLen)
       \/ /\ text = FindScenarioText
          /\ find = FindScenarioFind
          /\ repl = FindScenarioReplace
    /\ flag \in BOOLEAN
    /\ pc = "call"
    /\ style = ""
    /\ ret = <<>>
    /\ words = <<>>
    /\ stats = NoStats
    /\ panicked = FALSE
    /\ first = text
    /\ calls = <<>>

SpecFind == InitFind /\ [][CallFindReplace]_vars

----------------------------------------------------------------------------
(* SortLines (text_utils.go:102-114) with sort.Slice.                      *)

(* The < of Go strings: byte-wise lexicographic.                           *)
RECURSIVE StrLess(_, _)
StrLess(x, y) ==
    IF y = <<>> THEN FALSE
    ELSE IF x = <<>> THEN TRUE
    ELSE IF Head(x) # Head(y) THEN Head(x) < Head(y)
    ELSE StrLess(Tail(x), Tail(y))

(* The less function of lines 106-111 on the 0-based indices i, j.         *)
Less(data, i, j, ascending) ==
    IF ascending
    THEN StrLess(StringsToLower(data[i + 1]), StringsToLower(data[j + 1]))
    ELSE StrLess(StringsToLower(data[j + 1]), StringsToLower(data[i + 1]))

Swap(data, i, j) == [data EXCEPT ![i + 1] = data[j + 1], ![j + 1] = data[i + 1]]

(* sort.insertionSortLessFunc(data, a, b)                                  *)
RECURSIVE insertionInner(_, _, _, _)
insertionInner(data, a, j, ascending) ==
    IF j > a /\ Less(data, j, j - 1, ascending)
    THEN insertionInner(Swap(data, j, j - 1), a, j - 1, ascending)
    ELSE data

RECURSIVE insertionOuter(_, _, _, _, _)
insertionOuter(data, a, b, i, ascending) ==
    IF i < b THEN insertionOuter(insertionInner(data, a, i, ascending), a, b, i + 1, ascending)
    ELSE data

insertionSort(data, a, b, ascending) == insertionOuter(data, a, b, a + 1, ascending)

(* sort.order2LessFunc and sort.medianLessFunc: <<index, swaps>>           *)
order2(data, a, b, swaps, ascending) ==
    IF Less(data, b, a, ascending) THEN <<b, a, swaps + 1>> ELSE <<a, b, swaps>>

median(data, a, b, c, ascending) ==
    LET s1 == order2(data, a, b, 0, ascending)
        s2 == order2(data, s1[2], c, s1[3], ascending)
        s3 == order2(data, s1[1], s2[1], s2[3], ascending)
    IN  <<s3[2], s3[3]>>

(* sort.choosePivotLessFunc for fewer than 50 elements (no ninther): the   *)
(* pivot index and the number of swaps; no swap is the increasing hint.    *)
choosePivot(data, a, b, ascending) ==
    LET l == b - a
        i == a + (l \div 4) * 1
        j == a + (l \div 4) * 2
        k == a + (l \div 4) * 3
    IN  IF l >= 8 THEN median(data, i, j, k, ascending) ELSE <<j, 0>>

(* sort.partialInsertionSortLessFunc for fewer than 50 elements: it moves  *)
(* nothing and reports whether data[a:b] is already in order.              *)
partialInsertionSort(data, a, b, ascending) ==
    \A i \in (a + 1)..(b - 1) : ~Less(data, i, i - 1, ascending)

(* sort.partitionLessFunc: the scans of i upwards and j downwards.         *)
RECURSIVE scanUp(_, _, _, _, _)
scanUp(data, a, i, j, ascending) ==
    IF i <= j /\ Less(data, i, a, ascending) THEN scanUp(data, a, i + 1, j, ascending) ELSE i

RECURSIVE scanDown(_, _, _, _, _)
scanDown(data, a, i, j, ascending) ==
    IF i <= j /\ ~Less(data, j, a, ascending) THEN scanDown(data, a, i, j - 1, ascending) ELSE j

RECURSIVE partitionLoop(_, _, _, _, _)
partitionLoop(data, a, i0, j0, ascending) ==
    LET i == scanUp(data, a, i0, j0, ascending)
        j == scanDown(data, a, i, j0, ascending)
    IN  IF i > j THEN [data |-> Swap(data, j, a), mid |-> j]
        ELSE partitionLoop(Swap(data, i, j), a, i + 1, j - 1, ascending)

partition(data, a, b, pivot, ascending) ==
    LET d1 == Swap(data, a, pivot)
        i == scanUp(d1, a, a + 1, b - 1, ascending)
        j == scanDown(d1, a, i, b - 1, ascending)
    IN  IF i > j THEN [data |-> Swap(d1, j, a), mid |-> j]
        ELSE partitionLoop(Swap(d1, i, j), a, i + 1, j - 1, ascending)

(* sort.pdqsortLessFunc's insertion sort threshold                         *)
maxInsertion == 12

(* sort.Slice (pdqsort, Go 1.19 and later) for at most maxInsertion + 1    *)
(* elements: up to maxInsertion elements are insertion-sorted; for one     *)
(* more the pivot is chosen, an already ordered slice is returned as it    *)
(* is, and otherwise the slice is partitioned once and both sides, being   *)
(* short, are insertion-sorted (no side is long enough for a second        *)
(* partition, for breakPatterns, partitionEqual or heapSort).              *)
sortSlice(data, ascending) ==
    LET n == Len(data)
        pv == choosePivot(data, 0, n, ascending)
        pt == partition(data, 0, n, pv[1], ascending)
    IN  IF n <= maxInsertion THEN insertionSort(data, 0, n, ascending)
        ELSE IF pv[2] = 0 /\ partialInsertionSort(data, 0, n, ascending) THEN data
        ELSE insertionSort(insertionSort(pt.data, 0, pt.mid, ascending), pt.mid + 1, n, ascending)

SortLines(s, ascending) == StringsJoin(sortSlice(StringsSplit(s, Newline), ascending), Newline)

CallSortLines ==
    /\ pc = "call"
    /\ fn = "SortLines"
    /\ ret' = SortLines(text, flag)
    /\ pc' = "done"
    /\ calls' = Append(calls, fn)
    /\ UNCHANGED <<fn, text, find, repl, flag, style, words, stats, panicked, first>>

(* "banana\nApple\ncherry" and "Apple\nbanana\ncherry"                     *)
SortScenario ==
    <<98, 97, 110, 97, 110, 97, 10, 65, 112, 112, 108, 101, 10, 99, 104, 101, 114, 114, 121>>
SortScenarioResult ==
    <<65, 112, 112, 108, 101, 10, 98, 97, 110, 97, 110, 97, 10, 99, 104, 101, 114, 114, 121>>

(* Texts of maxInsertion + 1 one-letter lines: "b" and "B" (in either      *)
(* order) on two of the lines, "a" on the other lines up to a cut and "c"  *)
(* on those after it.                                                      *)
LongSortTexts ==
    LET n == maxInsertion + 1
    IN  {StringsJoin([k \in 1..n |->
                        IF k = pq[1] THEN <<xy[1]>>
                        ELSE IF k = pq[2] THEN <<xy[2]>>
                        ELSE IF k <= m THEN <<97>> ELSE <<99>>], Newline) :
            pq \in {c \in (1..n) \X (1..n) : c[1] < c[2]},
            m \in 0..n,
            xy \in {<<98, 66>>, <<66, 98>>}}

InitSort ==
    /\ fn = "SortLines"
    /\ text \in Str(SortBytes, MaxSortLen) \cup {SortScenario} \cup LongSortTexts
    /\ flag \in BOOLEAN
    /\ pc = "call"
    /\ find = <<>>
    /\ repl = <<>>
    /\ style = ""
    /\ ret = <<>>
    /\ words = <<>>
    /\ stats = NoStats
    /\ panicked = FALSE
    /\ first = text
    /\ calls = <<>>

SpecSort == InitSort /\ [][CallSortLines]_vars

----------------------------------------------------------------------------
(* WordCount (text_utils.go:38-70) with strings.TrimSpace and              *)
(* strings.Fields.                                                         *)

(* utf8.DecodeLastRuneInString(s[:end]): the last code point before the    *)
(* 1-based position end + 1 and its width.                                 *)
RECURSIVE RuneStartBack(_, _, _)
RuneStartBack(s, start, lim) ==
    IF start >= lim /\ s[start] >= 128 /\ s[start] <= 191
    THEN RuneStartBack(s, start - 1, lim)
    ELSE start

DecodeLastRuneInString(s, end) ==
    IF s[end] < RuneSelf THEN [r |-> s[end], w |-> 1]
    ELSE LET lim == IF end - 4 < 0 THEN 1 ELSE end - 4 + 1
             back == RuneStartBack(s, end - 1, lim)
             start == IF back < 1 THEN 1 ELSE back
             d == DecodeRuneInString(SubSeq(s, start, end), 1)
         IN  IF start + d.w - 1 # end THEN [r |-> RuneError, w |-> 1] ELSE d

(* strings.TrimSpace: white space (unicode.IsSpace) is cut from both ends. *)
RECURSIVE TrimLeft(_, _)
TrimLeft(s, i) ==
    IF i > Len(s) THEN i
    ELSE LET d == DecodeRuneInString(s, i)
         IN  IF IsSpace(d.r) THEN TrimLeft(s, i + d.w) ELSE i

RECURSIVE TrimRight(_, _, _)
TrimRight(s, start, end) ==
    IF end < start THEN end
    ELSE LET d == DecodeLastRuneInString(SubSeq(s, start, end), end - start + 1)
         IN  IF IsSpace(d.r) THEN TrimRight(s, start, end - d.w) ELSE end

TrimSpace(s) ==
    LET start == TrimLeft(s, 1) IN SubSeq(s, start, TrimRight(s, start, Len(s)))

(* len(strings.Fields(s)): the runs of code points that are not white      *)
(* space; inField tells whether the code point before i was in a run.      *)
RECURSIVE FieldsFrom(_, _, _)
FieldsFrom(s, i, inField) ==
    IF i > Len(s) THEN 0
    ELSE LET d == DecodeRuneInString(s, i)
         IN  IF IsSpace(d.r) THEN FieldsFrom(s, i + d.w, FALSE)
             ELSE (IF inField THEN 0 ELSE 1) + FieldsFrom(s, i + d.w, TRUE)

(* The loop of lines 49-53.                                                *)
RECURSIVE CountParagraphs(_)
CountParagraphs(paragraphs) ==
    IF paragraphs = <<>> THEN 0
    ELSE (IF TrimSpace(Head(paragraphs)) # <<>> THEN 1 ELSE 0) + CountParagraphs(Tail(paragraphs))

(* strings.ReplaceAll(s, old, "") for a one-byte old.                      *)
WithoutByte(s, b) == SelectSeq(s, LAMBDA x : x # b)

RuneCountInString(s) == Len(Runes(s))

WordCount(s) ==
    LET t == TrimSpace(s)
    IN  [words |-> FieldsFrom(t, 1, FALSE),
         characters |-> Len(t),
         charactersNoSpaces |-> Len(WithoutByte(WithoutByte(t, 32), 10)),
         lines |-> Len(StringsSplit(t, Newline)),
         paragraphs |-> CountParagraphs(StringsSplit(t, <<10, 10>>))]

CallWordCount ==
    /\ pc = "call"
    /\ fn = "WordCount"
    /\ stats' = WordCount(text)
    /\ pc' = "done"
    /\ calls' = Append(calls, fn)
    /\ UNCHANGED <<fn, text, find, repl, flag, style, ret, words, panicked, first>>

(* "Hello world.\n\nSecond paragraph here."                                *)
CountScenario ==
    <<72, 101, 108, 108, 111, 32, 119, 111, 114, 108, 100, 46, 10, 10,
      83, 101, 99, 111, 110, 100, 32, 112, 97, 114, 97, 103, 114, 97, 112, 104, 32,
      104, 101, 114, 101, 46>>

InitCount ==
    /\ fn = "WordCount"
    /\ text \in Str(CountBytes, MaxCountLen) \cup {CountScenario}
    /\ InitCommon

SpecCount == InitCount /\ [][CallWordCount]_vars

----------------------------------------------------------------------------
(* Every code point an argument or a result decodes to is one the unicode  *)
(* tables above cover.                                                     *)
AllModelled(s) == \A k \in 1..Len(Runes(s)) : Modelled(Runes(s)[k])

CodePointsModelled ==
    /\ AllModelled(text) /\ AllModelled(find) /\ AllModelled(repl) /\ AllModelled(ret)
    /\ \A k \in 1..Len(words) : AllModelled(words[k])

----------------------------------------------------------------------------
(* Vocabulary of the properties of splitWords.                             *)

(* The 1-based byte positions at which a range over s starts a code point. *)
RECURSIVE RuneStartsFrom(_, _)
RuneStartsFrom(s, i) ==
    IF i > Len(s) THEN {}
    ELSE {i} \cup RuneStartsFrom(s, i + DecodeRuneInString(s, i).w)

RuneStarts(s) == RuneStartsFrom(s, 1)

RuneAt(s, i) == DecodeRuneInString(s, i).r

IsWordChar(r) == IsLetter(r) \/ IsNumber(r)

(* s with every code point that is not a word character removed.           *)
RECURSIVE WordCharsFrom(_, _)
WordCharsFrom(s, i) ==
    IF i > Len(s) THEN <<>>
    ELSE LET d == DecodeRuneInString(s, i)
         IN  (IF IsWordChar(d.r) THEN SubSeq(s, i, i + d.w - 1) ELSE <<>>)
             \o WordCharsFrom(s, i + d.w)

WordCharsOf(s) == WordCharsFrom(s, 1)

RECURSIVE Concat(_)
Concat(list) == IF list = <<>> THEN <<>> ELSE Head(list) \o Concat(Tail(list))

AllWordChars(token) == \A i \in RuneStarts(token) : IsWordChar(RuneAt(token, i))

(* The offsets, in the concatenation of the tokens, at which a token ends. *)
TokenEnds(list) == {Len(Concat(SubSeq(list, 1, n))) : n \in 1..Len(list)}

(* A token boundary lies just before the code point that starts at byte i  *)
(* of s: the word characters before i fill a whole number of tokens.       *)
BoundaryBefore(s, list, i) == Len(WordCharsOf(SubSeq(s, 1, i - 1))) \in TokenEnds(list)

(* The pairs <<i, j>> of starts of adjacent code points of s that are both *)
(* word characters.                                                        *)
AdjacentWordPairs(s) ==
    {<<i, j>> \in RuneStarts(s) \X RuneStarts(s) :
        /\ j = i + DecodeRuneInString(s, i).w
        /\ IsWordChar(RuneAt(s, i))
        /\ IsWordChar(RuneAt(s, j))}

SplitDone == pc = "done" /\ fn = "splitWords"

(* C1 (as claimed): between adjacent word characters p, c splitWords puts  *)
(* a token boundary exactly when c is an upper-case letter and the code    *)
(* point p before it is a lower-case letter, for every code point.         *)
C1_HumpIffLowerThenUpper ==
    SplitDone =>
        \A pr \in AdjacentWordPairs(text) :
            BoundaryBefore(text, words, pr[2])
                <=> (IsUpper(RuneAt(text, pr[2])) /\ IsLower(RuneAt(text, pr[1])))

(* What does hold of the hump rule: the claimed equivalence for the texts  *)
(* made of ASCII bytes only, where the previous byte is the previous code  *)
(* point.                                                                  *)
HumpIffLowerThenUpperAscii ==
    (SplitDone /\ \A k \in 1..Len(text) : text[k] < RuneSelf) =>
        \A pr \in AdjacentWordPairs(text) :
            BoundaryBefore(text, words, pr[2])
                <=> (IsUpper(RuneAt(text, pr[2])) /\ IsLower(RuneAt(text, pr[1])))

(* C2: every token is non-empty and made of word characters only, and the  *)
(* tokens in order concatenate to the input without its non-word           *)
(* characters; the empty input gives no token.                             *)
C2_TokensPartitionWordChars ==
    SplitDone =>
        /\ \A k \in 1..Len(words) : Len(words[k]) > 0 /\ AllWordChars(words[k])
        /\ Concat(words) = WordCharsOf(text)
        /\ (text = <<>> => words = <<>>)

(* C2 witness: a call that returned several tokens from a text holding a   *)
(* separator and a two-byte letter.                                        *)
C2_Witness ==
    /\ SplitDone
    /\ Len(words) >= 2
    /\ \E i \in RuneStarts(text) : ~IsWordChar(RuneAt(text, i)) /\ text[i] < 128
    /\ \E i \in RuneStarts(text) : DecodeRuneInString(text, i).w = 2

----------------------------------------------------------------------------
(* Vocabulary of the properties of ConvertCase: the renderings of a token  *)
(* sequence as the specification words them, code point by code point.     *)

LowerToken(token) == StringOf([k \in 1..Len(Runes(token)) |-> ToLower(Runes(token)[k])])

UpperToken(token) == StringOf([k \in 1..Len(Runes(token)) |-> ToUpper(Runes(token)[k])])

(* The lowercased token with its first code point in upper case.           *)
UpperFirst(token) ==
    LET rs == Runes(LowerToken(token))
    IN  IF rs = <<>> THEN <<>> ELSE StringOf(<<ToUpper(rs[1])>> \o Tail(rs))

(* The lowercased token with its first code point in title case.           *)
TitleFirst(token) ==
    LET rs == Runes(LowerToken(token))
    IN  IF rs = <<>> THEN <<>> ELSE StringOf(<<ToTitle(rs[1])>> \o Tail(rs))

RECURSIVE JoinWith(_, _)
JoinWith(list, sep) ==
    IF list = <<>> THEN <<>>
    ELSE list[1] \o Concat([k \in 1..(Len(list) - 1) |-> sep \o list[k + 1]])

RenderUpperFirst(list, caseType) ==
    CASE caseType = "camelCase" ->
            Concat([k \in 1..Len(list) |-> IF k = 1 THEN LowerToken(list[k]) ELSE UpperFirst(list[k])])
      [] caseType = "PascalCase" -> Concat([k \in 1..Len(list) |-> UpperFirst(list[k])])
      [] caseType = "snake_case" -> JoinWith([k \in 1..Len(list) |-> LowerToken(list[k])], <<95>>)
      [] caseType = "kebab-case" -> JoinWith([k \in 1..Len(list) |-> LowerToken(list[k])], <<45>>)
      [] caseType = "CONSTANT_CASE" -> JoinWith([k \in 1..Len(list) |-> UpperToken(list[k])], <<95>>)

RenderTitleFirst(list, caseType) ==
    CASE caseType = "camelCase" ->
            Concat([k \in 1..Len(list) |-> IF k = 1 THEN LowerToken(list[k]) ELSE TitleFirst(list[k])])
      [] caseType = "PascalCase" -> Concat([k \in 1..Len(list) |-> TitleFirst(list[k])])
      [] OTHER -> RenderUpperFirst(list, caseType)

CaseDone == pc = "done" /\ fn = "ConvertCase"

(* C3 (as claimed): for the five styles ConvertCase(text, style) is the    *)
(* rendering of splitWords(text) with the first code point of the later    *)
(* (camelCase) or of every (PascalCase) token in UPPER case, and a text    *)
(* without word characters renders as the empty string.                    *)
C3_RenderUpperCase ==
    (CaseDone /\ style \in CaseStyles /\ Len(calls) = 1) =>
        /\ ret = RenderUpperFirst(splitWords(text), style)
        /\ (WordCharsOf(text) = <<>> => ret = <<>>)

(* C3 (amended): the same with that first code point in TITLE case, which  *)
(* is what strings.Title writes (U+01C6 becomes U+01C5, not U+01C4); the   *)
(* text "!!!   ---" renders as the empty string in all five styles.        *)
C3_RenderTitleCase ==
    (CaseDone /\ style \in CaseStyles /\ Len(calls) = 1) =>
        /\ ret = RenderTitleFirst(splitWords(text), style)
        /\ (WordCharsOf(text) = <<>> => ret = <<>>)
        /\ (text = NoWordCharsText => ret = <<>>)

(* C3 witness: a camelCase or PascalCase call that rendered two or more    *)
(* tokens, one of them starting with the two-byte letter U+01C6.           *)
C3_Witness ==
    /\ CaseDone
    /\ Len(calls) = 1
    /\ style \in {"camelCase", "PascalCase"}
    /\ Len(splitWords(text)) >= 2
    /\ \E k \in 2..Len(splitWords(text)) : Runes(splitWords(text)[k])[1] = 454

(* C4: converting the snake_case rendering of a text to camelCase gives    *)
(* the camelCase rendering of the text itself; "myVarName123" has the      *)
(* tokens "my" "Var" "Name123", the snake_case form "my_var_name123", and  *)
(* comes back as "myVarName123".                                           *)
C4_SnakeThenCamel ==
    /\ (CaseDone /\ calls = <<"snake_case", "camelCase">>) =>
          ret = ConvertCase(first, "camelCase")
    /\ (CaseDone /\ first = MyVarName123) =>
          /\ calls = <<"snake_case">> =>
                splitWords(text) = MyVarName123Tokens /\ ret = MyVarName123Snake
          /\ calls = <<"snake_case", "camelCase">> =>
                text = MyVarName123Snake /\ ret = MyVarName123

(* C4 witness: the second call of a snake_case-then-camelCase chain has    *)
(* returned, for a text with a hump and a separator.                       *)
C4_Witness ==
    /\ CaseDone
    /\ calls = <<"snake_case", "camelCase">>
    /\ Len(splitWords(first)) >= 2
    /\ first # text
    /\ ret # text

----------------------------------------------------------------------------
(* Properties of ReverseText.                                              *)

ReverseDone == pc = "done" /\ fn = "ReverseText"

Reversed(seq) == [k \in 1..Len(seq) |-> seq[Len(seq) + 1 - k]]

(* C7 (as claimed): for every string, reversing twice gives the string     *)
(* back, and one reversal returns the code points of the text in reverse   *)
(* order.                                                                  *)
C7_InvolutionAllStrings ==
    ReverseDone =>
        /\ Len(calls) = 2 => ret = first
        /\ Runes(ret) = Reversed(Runes(text))

(* C7 (amended): for every well-formed UTF-8 string, reversing twice gives *)
(* the string back; for every string one reversal returns the code points  *)
(* a range over the text yields in reverse order, each two-byte code point *)
(* intact (an ill-formed byte counts as U+FFFD and is written as one).     *)
C7_InvolutionValidStrings ==
    ReverseDone =>
        /\ (Len(calls) = 2 /\ ValidString(first)) => ret = first
        /\ Runes(ret) = Reversed(Runes(text))
        /\ ValidString(ret)

(* C7 witness: the second reversal of a well-formed text with a two-byte   *)
(* code point that is not a palindrome has returned.                       *)
C7_Witness ==
    /\ ReverseDone
    /\ Len(calls) = 2
    /\ ValidString(first)
    /\ text # first
    /\ \E i \in RuneStarts(first) : DecodeRuneInString(first, i).w = 2

----------------------------------------------------------------------------
(* Properties of RemoveDuplicateLines.                                     *)

DedupDone == pc = "done" /\ fn = "RemoveDuplicateLines"

(* The positions of the lines that have no equal line before them.         *)
FirstOccurrences(lineList) ==
    {k \in 1..Len(lineList) : \A j \in 1..(k - 1) : lineList[j] # lineList[k]}

(* The elements of a sequence at the positions in picks, in order.         *)
RECURSIVE Pick(_, _, _)
Pick(lineList, picks, k) ==
    IF k > Len(lineList) THEN <<>>
    ELSE (IF k \in picks THEN <<lineList[k]>> ELSE <<>>) \o Pick(lineList, picks, k + 1)

(* C9: the output lines are pairwise distinct, every input line is among   *)
(* them, they stand in the order of their first occurrence in the input    *)
(* ("a\nb\na\nc\nb" gives "a\nb\nc"), and a second application returns its *)
(* input unchanged.                                                        *)
C9_FirstOccurrencesKept ==
    DedupDone =>
        LET inLines == StringsSplit(text, Newline)
            outLines == StringsSplit(ret, Newline)
        IN  /\ \A k, l \in 1..Len(outLines) : k # l => outLines[k] # outLines[l]
            /\ \A k \in 1..Len(inLines) : \E l \in 1..Len(outLines) : outLines[l] = inLines[k]
            /\ outLines = Pick(inLines, FirstOccurrences(inLines), 1)
            /\ (text = DedupScenario => ret = DedupScenarioResult)
            /\ (Len(calls) = 2 => ret = text)

(* C9 witness: a call that dropped a repeated line and kept a line that    *)
(* differs from an earlier one only in case.                               *)
C9_Witness ==
    /\ DedupDone
    /\ Len(calls) = 1
    /\ Len(StringsSplit(ret, Newline)) < Len(StringsSplit(text, Newline))
    /\ <<97>> \in {StringsSplit(ret, Newline)[k] : k \in 1..Len(StringsSplit(ret, Newline))}
    /\ <<65>> \in {StringsSplit(ret, Newline)[k] : k \in 1..Len(StringsSplit(ret, Newline))}

----------------------------------------------------------------------------
(* Properties of FindReplace.                                              *)

FindDone == pc = "done" /\ fn = "FindReplace"

SameLetter(a, b) == a = b \/ ToLower(a) = ToLower(b)

(* find occurs at position p of s, letter case ignored: the position after *)
(* the occurrence, 0 when it does not occur there.                         *)
RECURSIVE OccursAt(_, _, _, _)
OccursAt(s, p, old, k) ==
    IF k > Len(old) THEN p
    ELSE IF p > Len(s) THEN 0
    ELSE IF SameLetter(RuneAt(old, k), RuneAt(s, p))
    THEN OccursAt(s, p + DecodeRuneInString(s, p).w, old, k + DecodeRuneInString(old, k).w)
    ELSE 0

(* s from position p on with every non-overlapping occurrence of old       *)
(* (letter case ignored, leftmost first) replaced by the bytes of new; an  *)
(* empty old occurs before every code point and at the end.                *)
RECURSIVE LiteralReplace(_, _, _, _)
LiteralReplace(s, p, old, new) ==
    IF p > Len(s) THEN (IF old = <<>> THEN new ELSE <<>>)
    ELSE LET w == DecodeRuneInString(s, p).w
             e == OccursAt(s, p, old, 1)
         IN  IF old = <<>> THEN new \o SubSeq(s, p, p + w - 1) \o LiteralReplace(s, p + w, old, new)
             ELSE IF e # 0 THEN new \o LiteralReplace(s, e, old, new)
             ELSE SubSeq(s, p, p + w - 1) \o LiteralReplace(s, p + w, old, new)

(* C5 (as claimed): a case-insensitive FindReplace that returns gives the  *)
(* text with every non-overlapping occurrence of find, letter case         *)
(* ignored, replaced by the replace string taken literally, whatever bytes *)
(* it holds; "Hello HELLO hello" with "hello" -> "hi" gives "hi hi hi".    *)
C5_ReplacementLiteral ==
    (FindDone /\ ~flag /\ ~panicked) =>
        /\ ret = LiteralReplace(text, 1, find, repl)
        /\ (text = FindScenarioText => ret = FindScenarioResult)

(* The same for the replace strings without "$".                           *)
C5_ReplacementLiteralWithoutDollar ==
    (FindDone /\ ~flag /\ ~panicked /\ \A k \in 1..Len(repl) : repl[k] # 36) =>
        /\ ret = LiteralReplace(text, 1, find, repl)
        /\ (text = FindScenarioText => ret = FindScenarioResult)

(* The case-sensitive path replaces exactly the byte-equal occurrences.    *)
FindSensitiveLiteral ==
    (FindDone /\ flag /\ find # <<>>) => ret = ReplaceFrom(text, 1, find, repl)

(* C8 (as claimed): every call of FindReplace returns; none panics.        *)
C8_FindReplaceTotal == FindDone => ~panicked

(* The calls that panic are the case-insensitive ones whose find is not    *)
(* well-formed UTF-8.                                                      *)
C8_PanicsOnlyOnIllFormedFind ==
    FindDone => (panicked <=> (~flag /\ ~ValidString(find)))

----------------------------------------------------------------------------
(* Properties of SortLines.                                                *)

SortDone == pc = "done" /\ fn = "SortLines"

(* line k sorts strictly before line l under the flag.                     *)
Before(lineList, k, l, ascending) ==
    IF ascending
    THEN StrLess(StringsToLower(lineList[k]), StringsToLower(lineList[l]))
    ELSE StrLess(StringsToLower(lineList[l]), StringsToLower(lineList[k]))

(* The place of input line k in the stable order: after the lines that     *)
(* sort before it and after the earlier lines of equal lowercased content. *)
StableRank(lineList, k, ascending) ==
    1 + Cardinality({l \in 1..Len(lineList) : Before(lineList, l, k, ascending)})
      + Cardinality({l \in 1..(k - 1) :
            ~Before(lineList, l, k, ascending) /\ ~Before(lineList, k, l, ascending)})

(* C6 (as claimed): the output lines are the input lines in the stable     *)
(* case-insensitive order of the flag: a permutation, ordered, and lines   *)
(* of equal lowercased content in their input order; the scenario          *)
(* "banana\nApple\ncherry" sorts ascending to "Apple\nbanana\ncherry".     *)
C6_SortStable ==
    SortDone =>
        LET inLines == StringsSplit(text, Newline)
            outLines == StringsSplit(ret, Newline)
        IN  /\ Len(outLines) = Len(inLines)
            /\ \A k \in 1..Len(inLines) : outLines[StableRank(inLines, k, flag)] = inLines[k]
            /\ ((text = SortScenario /\ flag) => ret = SortScenarioResult)

(* What does hold: the output is ordered and has the lines of the input,   *)
(* each as often as the input; and up to maxInsertion lines it is stable.  *)
SortOrderedPermutation ==
    SortDone =>
        LET inLines == StringsSplit(text, Newline)
            outLines == StringsSplit(ret, Newline)
        IN  /\ Len(outLines) = Len(inLines)
            /\ \A k \in 1..(Len(outLines) - 1) : ~Before(outLines, k + 1, k, flag)
            /\ \A k \in 1..Len(inLines) :
                  Cardinality({l \in 1..Len(inLines) : inLines[l] = inLines[k]})
                      = Cardinality({l \in 1..Len(outLines) : outLines[l] = inLines[k]})
            /\ (Len(inLines) <= maxInsertion =>
                  \A k \in 1..Len(inLines) : outLines[StableRank(inLines, k, flag)] = inLines[k])
            /\ ((text = SortScenario /\ flag) => ret = SortScenarioResult)

----------------------------------------------------------------------------
(* Properties of WordCount.                                                *)

CountDone == pc = "done" /\ fn = "WordCount"

(* The starts of the white-space-delimited tokens of t.                    *)
TokenStarts(t) ==
    {i \in RuneStarts(t) :
        /\ ~IsSpace(RuneAt(t, i))
        /\ \A j \in RuneStarts(t) : j + DecodeRuneInString(t, j).w = i => IsSpace(RuneAt(t, j))}

SpaceOrNewline(t) == {i \in 1..Len(t) : t[i] \in {32, 10}}

NonBlankParagraphs(t) ==
    {k \in 1..Len(StringsSplit(t, <<10, 10>>)) : TrimSpace(StringsSplit(t, <<10, 10>>)[k]) # <<>>}

(* C10 (as claimed): with t the trimmed text, words is the number of       *)
(* white-space-delimited tokens of t, lines the number of "\n"-delimited   *)
(* segments (at least 1 for a non-empty t), paragraphs the number of       *)
(* non-blank blank-line-delimited segments, characters the number of CODE  *)
(* POINTS of t, charactersNoSpaces that less the spaces and newlines; the  *)
(* scenario has 5 words, 3 lines and 2 paragraphs.                         *)
C10_CountsOfCodePoints ==
    CountDone =>
        LET t == TrimSpace(text)
        IN  /\ stats.words = Cardinality(TokenStarts(t))
            /\ stats.lines = 1 + Cardinality({i \in 1..Len(t) : t[i] = 10})
            /\ (t # <<>> => stats.lines >= 1)
            /\ stats.paragraphs = Cardinality(NonBlankParagraphs(t))
            /\ stats.characters = RuneCountInString(t)
            /\ stats.charactersNoSpaces = stats.characters - Cardinality(SpaceOrNewline(t))
            /\ (text = CountScenario =>
                  stats.words = 5 /\ stats.lines = 3 /\ stats.paragraphs = 2)

(* What does hold: the same with characters the number of BYTES of t.      *)
CountsOfBytes ==
    CountDone =>
        LET t == TrimSpace(text)
        IN  /\ stats.words = Cardinality(TokenStarts(t))
            /\ stats.lines = 1 + Cardinality({i \in 1..Len(t) : t[i] = 10})
            /\ stats.paragraphs = Cardinality(NonBlankParagraphs(t))
            /\ stats.characters = Len(t)
            /\ stats.charactersNoSpaces = stats.characters - Cardinality(SpaceOrNewline(t))
            /\ (text = CountScenario =>
                  stats.words = 5 /\ stats.lines = 3 /\ stats.paragraphs = 2)

====
